---- MODULE Spec2Model ----
(***************************************************************************)
(* Model of the voice-keyboard dictation pipeline:                         *)
(*   - useAudioRecorder   (hooks/useAudioRecorder.ts): recorder / slicer   *)
(*   - useTranscription   (hooks/useTranscription.ts): slice workers,      *)
(*                         reassembly, reset                               *)
(*   - DictationInterface (components/dictation-interface.tsx):            *)
(*                         handleStart / handleStop / finalizer polling    *)
(* The browser event loop is modelled without a clock: a timer that has    *)
(* been armed may fire at any later step, subject to the order stated at   *)
(* Next.                                                                   *)
(* Texts are sequences of tokens; the token " " is a space character.      *)
(***************************************************************************)
EXTENDS Integers, Sequences, FiniteSets, TLC

\* ------------------------------------------------------------------ bounds
\* most media recorders started (hence slices produced) in one run of Spec
MaxSlices == 2
\* the same for SpecWorkers, the system without the finalizer's polling
MaxSlicesW == 3
\* ------------------------------------------------------- program constants
MAX_RETRIES == 2
MAX_CHECKS == 60

\* ------------------------------------------------------------------- texts
SP == " "
EmptyText == << >>
Hello == << "hello" >>
ThereFriend == << "there", SP, "friend" >>
\* what is said in slice i
SpokenText(i) == IF i % 2 = 0 THEN Hello ELSE ThereFriend
\* texts the transcription response for slice i may carry (data.text || "")
ServerTexts(i) == { EmptyText, SpokenText(i) }

Terminal == { "completed", "error", "skipped" }

\* String.prototype.trim on a token sequence
RECURSIVE TrimLeft(_)
TrimLeft(t) ==
  IF t = << >> THEN << >>
  ELSE IF Head(t) = SP THEN TrimLeft(Tail(t)) ELSE t

RECURSIVE TrimRight(_)
TrimRight(t) ==
  IF t = << >> THEN << >>
  ELSE IF t[Len(t)] = SP THEN TrimRight(SubSeq(t, 1, Len(t) - 1)) ELSE t

Trim(t) == TrimRight(TrimLeft(t))

\* ------------------------------------------------ Map<number, string> (JS)
\* a Map is a sequence of <<key, value>> pairs in insertion order
MapKeys(m) == { m[i][1] : i \in 1 .. Len(m) }

MapHas(m, k) == k \in MapKeys(m)

MapGet(m, k) == LET i == CHOOSE j \in 1 .. Len(m) : m[j][1] = k IN m[i][2]

\* Map.prototype.set: an existing key keeps its position
MapSet(m, k, v) ==
  IF MapHas(m, k)
  THEN [ i \in 1 .. Len(m) |-> IF m[i][1] = k THEN << k, v >> ELSE m[i] ]
  ELSE Append(m, << k, v >>)

\* Array.from(sliceTexts.keys())
KeysInOrder(m) == [ i \in 1 .. Len(m) |-> m[i][1] ]

\* variant of SortedIndices that keeps the insertion order (no sort)
UnsortedIndices(m) == KeysInOrder(m)

\* .sort((a, b) => a - b)
SortedIndices(m) == SortSeq(KeysInOrder(m), LAMBDA a, b : a < b)

\* the loop body of reassembleText: fullText += (needsSpace ? " " : "") + sliceText
AppendFragment(fullText, sliceText) ==
  IF Len(sliceText) > 0
  THEN LET needsSpace == /\ Len(fullText) > 0
                         /\ fullText[Len(fullText)] # SP
                         /\ Head(sliceText) # SP
       IN fullText \o (IF needsSpace THEN << SP >> ELSE << >>) \o sliceText
  ELSE fullText

RECURSIVE ReassembleLoop(_, _, _, _)
ReassembleLoop(m, order, i, fullText) ==
  IF i > Len(order) THEN fullText
  ELSE ReassembleLoop(m, order, i + 1, AppendFragment(fullText, MapGet(m, order[i])))

reassembleTextWith(m, order) ==
  IF Len(m) = 0 THEN << >> ELSE ReassembleLoop(m, order, 1, << >>)

reassembleText(m) == reassembleTextWith(m, SortedIndices(m))

\* --------------------------------------------------------------- variables
VARIABLES
  \* useAudioRecorder
  isRecording,      \* React state
  isPaused,         \* React state
  audioSlices,      \* length of the audioSlices list
  streamRef,        \* 0 = null, else the id of the acquired stream
  mediaRecorder,    \* state of mediaRecorderRef.current: "null" | "recording" | "inactive"
  orphans,          \* recorders still recording that mediaRecorderRef no longer points to
  chunksRef,        \* number of buffered chunks
  pendingSliceRef,
  sliceCountRef,
  sliceTimer,       \* sliceTimerRef and the isPaused value captured by its createAudioSlice
  restartTimers,    \* pending 50 ms restart timeouts (captured isPaused values)
  releaseTimers,    \* number of pending 200 ms release timeouts
  events,           \* queued dataavailable events: TRUE = event.data.size > 0
  budget,           \* media recorders that may still be started in this run
  startPc,          \* "idle" | "acquiring" (startRecording awaiting getUserMedia)
  recSession,       \* successful acquisitions so far (id of the recording session)
  emitted,          \* slice indices handed to onSliceCreated in this recording session
  mounted,          \* the component is mounted (the unmount cleanup has not run)
  trackStops,       \* stream id -> number of times its tracks were stopped
  recordingError,   \* React state `error` of useAudioRecorder
  sliceIntervalMs,  \* the hook's option in the latest render (preferences.sliceIntervalMs)
  sessionIntervalMs, \* sliceIntervalMs in the closure of the running startRecording call
  sliceTimerMs,     \* delay of the armed boundary interval, 0 when none is armed
  \* useTranscription
  statuses,         \* transcriptionStatuses: sliceIndex -> status of the existing records
  sliceTexts,       \* sliceTextsRef: Map in insertion order
  processedText,    \* processedTextRef / transcribedText
  isTranscribing,
  activeRequests,   \* activeRequestsRef: sliceIndex -> worker owning the controller
  workers,          \* running processSliceRealtime calls
  statusErrors,     \* the error field of the status records: sliceIndex -> message
  \* DictationInterface
  pollers,          \* handleStop invocations: recording session -> finalizer state
  recordingState,   \* status of the last recording-state event the page dispatched, "none" before the first
  \* POST /api/transcribe
  routeText,        \* `text` of the POST handler: the transcription returned for the slice
  previousContext,  \* formData.get('previousContext'); "" also stands for null
  cleanedText,      \* result of the duplicate removal, NotRun before it ran
  engine,           \* the workflow handling the request: "gemini" | "whisper"
  validatedText,    \* what the delegated validation returned, NotRun if it did not run
  reply,            \* [sent, text, duplicate]: the success response of the handler
  \* hasSpeech
  blob,             \* the slice given to hasSpeech: its size and what decodeAudioData makes of it
  vad,              \* [done, value]: whether hasSpeech returned, and what
  \* the dictionary of one user: database, cache of /api/transcribe, requests
  dictionaryDb,     \* version of the user's dictionary in the database (saves so far)
  dictionaryCache,  \* version held by dictionaryCache.get(userId), NoEntry if none
  requests,         \* transcription requests: id -> [pc, words, after]
  writer,           \* the dictionary handler: "idle" | "saved" (save done, cache not yet invalidated)
  written           \* version of the last write that has completed

recVars == << isRecording, isPaused, audioSlices, streamRef, mediaRecorder,
              orphans, chunksRef, pendingSliceRef, sliceCountRef, sliceTimer,
              restartTimers, releaseTimers, events, budget, startPc,
              recSession, emitted, mounted, trackStops,
              recordingError, sliceIntervalMs, sessionIntervalMs,
              sliceTimerMs >>
trVars  == << statuses, sliceTexts, processedText, isTranscribing,
              activeRequests, workers, statusErrors >>
dictVars == << dictionaryDb, dictionaryCache, requests, writer, written >>
pureVars == << routeText, previousContext, cleanedText, engine,
              validatedText, reply, blob, vad, dictVars >>
otherVars == << pureVars, recordingState >>
vars    == << recVars, trVars, pollers, otherVars >>

\* a setInterval handle together with the isPaused value its callback closed over
\* variant: the handle is left running
TimerLeftOn == [ on |-> TRUE, isPaused |-> FALSE ]
TimerOff == [ on |-> FALSE, isPaused |-> FALSE ]
TimerOn(p) == [ on |-> TRUE, isPaused |-> p ]

\* the slice intervals the settings offer; preferences.sliceIntervalMs ?? 5000
SliceIntervals == { 3000, 5000 }
DefaultIntervalMs == 5000

\* resumeRecording is re-created whenever sliceIntervalMs changes (it is in the
\* useCallback dependencies), so the interval it arms has the latest value
ResumeInterval(current, session) == current

\* useAudioRecorder's error state: null, or the message set by the catch
\* block of startRecording
NoError == "null"
\* what getUserMedia may reject with: the DOMException names the catch block
\* distinguishes, any other DOMException, and a non-DOMException error
StartErrors == { "NotAllowedError", "NotFoundError", "OtherDOMException",
                 "Error" }

\* variant: the catch block sets no message
StartErrorNone(err) == NoError

\* the message the catch block of startRecording passes to setError
StartErrorMessage(err) ==
  CASE err = "NotAllowedError" ->
         "Microphone access was denied. Please enable it in your browser settings."
    [] err = "NotFoundError" ->
         "Selected microphone device is not available. Please choose a different input."
    [] OTHER -> "err.message"

\* the empty function: an empty list of records, an empty Map
Empty == << >>

\* ------------------------------------------------------------------- Init
InitHooks(cap) ==
  /\ recordingState = "none"
  /\ isRecording = FALSE
  /\ isPaused = FALSE
  /\ audioSlices = 0
  /\ streamRef = 0
  /\ mediaRecorder = "null"
  /\ orphans = 0
  /\ chunksRef = 0
  /\ pendingSliceRef = FALSE
  /\ sliceCountRef = 0
  /\ sliceTimer = TimerOff
  /\ restartTimers = << >>
  /\ releaseTimers = 0
  /\ events = << >>
  /\ budget = cap
  /\ startPc = "idle"
  /\ recSession = 0
  /\ emitted = << >>
  /\ mounted = TRUE
  /\ trackStops = Empty
  /\ recordingError = NoError
  /\ sliceIntervalMs = DefaultIntervalMs
  /\ sessionIntervalMs = DefaultIntervalMs
  /\ sliceTimerMs = 0
  /\ statuses = Empty
  /\ sliceTexts = << >>
  /\ processedText = << >>
  /\ isTranscribing = FALSE
  /\ activeRequests = Empty
  /\ workers = Empty
  /\ statusErrors = Empty
  /\ pollers = Empty

\* the result slot of a request whose duplicate removal has not run
NotRun == << "not run" >>

\* no response has been sent
NoReply == [ sent |-> FALSE, text |-> << >>, duplicate |-> FALSE ]

\* no transcription request is being handled
InitRoute ==
  /\ routeText = << >>
  /\ previousContext = << >>
  /\ cleanedText = NotRun
  /\ engine = "gemini"
  /\ validatedText = NotRun
  /\ reply = NoReply

\* a blob of size 0: decodeAudioData rejects an empty ArrayBuffer (decodes is
\* false, and channelData is then not looked at)
EmptyBlob ==
  [ size |-> 0, audioContext |-> TRUE, decodes |-> FALSE, channelData |-> << >> ]
VadPending == [ done |-> FALSE, value |-> FALSE ]

\* hasSpeech is not running
InitVad ==
  /\ blob = EmptyBlob
  /\ vad = VadPending

\* dictionaryCache has no entry
NoEntry == -1

\* the module of /api/transcribe is loaded, no request and no write yet
InitCache ==
  /\ dictionaryDb = 0
  /\ dictionaryCache = NoEntry
  /\ requests = << >>
  /\ writer = "idle"
  /\ written = 0

InitWith(cap) == InitHooks(cap) /\ InitRoute /\ InitVad /\ InitCache

Init == InitWith(MaxSlices)

\* ------------------------------------------------------------ useTranscription
\* variant of resetStatuses that leaves the status list as it is
resetStatusesKeep(st) == st

\* reset(): setTranscriptionStatuses([])
resetStatuses(st) == Empty

\* variant: one worker slot per session
WorkerIdOneSlot(s, i) == << s, 0 >>
WorkerId(s, i) == << s, i >>

\* head of processSliceRealtime: append a pending record unless one exists
DispatchStatuses(st, i) ==
  IF i \in DOMAIN st THEN st ELSE (i :> "pending") @@ st

\* the call suspended in `await hasSpeech(slice.blob)`, first attempt
\* (stale: reset() has run since the call was made; read by no action)
NewWorker(i) ==
  [ sliceIndex |-> i, pc |-> "vad", attempt |-> 1, aborted |-> FALSE,
    stale |-> FALSE, delay |-> 0 ]

\* variant: the map without its index test
SetStatusAll(st, i, s) == [ j \in DOMAIN st |-> s ]

\* prev.map(status => status.sliceIndex === i ? {...status, status: s} : status)
SetStatus(st, i, s) ==
  IF i \in DOMAIN st THEN [ st EXCEPT ![i] = s ] ELSE st

Remove(f, k) == [ x \in (DOMAIN f) \ { k } |-> f[x] ]

\* variant: a returning worker leaves the flag as it is
FlagAfterKept(a, flag) == flag

\* "if (activeRequestsRef.current.size === 0) setIsTranscribing(false)"
FlagAfter(a, flag) == IF DOMAIN a = { } THEN FALSE ELSE flag

\* error messages a failed request may carry
RetryableMessage == "Transcription failed (HTTP 503)"
FatalMessage == "Invalid audio file"
ErrorMessages == { RetryableMessage, FatalMessage }

\* variant of isRetryable that matches every message
isRetryableAny(message) == TRUE

\* /(?:network|timeout|503|overloaded|try again)/i.test(error.message)
isRetryable(message) == message = RetryableMessage

\* variant of CanRetry without the attempt cap
CanRetryAlways(message, attempt) == isRetryable(message)

\* "isRetryable && attempt < MAX_RETRIES"
CanRetry(message, attempt) == isRetryable(message) /\ attempt < MAX_RETRIES

\* the backoff delay in ms: 1000 * attempt
BackoffDelay(attempt) == 1000 * attempt

\* the error field written with status "error" (the map leaves a list without
\* a record for i as it is)
SetError(errs, st, i, message) ==
  IF i \in DOMAIN st THEN (i :> message) @@ errs ELSE errs

\* ------------------------------------------------------------ useAudioRecorder
\* variant of resumeCount in which resume re-initialises the counter
resumeCountReset(c) == 0

\* resumeRecording leaves sliceCountRef.current as it is
resumeCount(c) == c

\* mediaRecorder.stop(): the recorder becomes inactive and one dataavailable
\* event is queued; d tells whether event.data.size > 0
StopEvents(d) ==
  IF mediaRecorder = "recording" THEN Append(events, d) ELSE events

\* the handleStop calls that still have a check scheduled; those that decided
\* hold no closure any more, and handleStart forgets what they reported
\* (setHasAutoSaved(false))
Pending(ps) ==
  [ s \in { x \in DOMAIN ps : ps[x].pc = "polling" } |-> ps[s] ]

\* handleStart up to the first await of startRecording: reset() of
\* useTranscription (abort the registered controllers, clear everything), then
\* startRecording suspends in getUserMedia.  The start button is rendered when
\* !isRecording and is disabled while isTranscribing.
HandleStart ==
  /\ mounted
  /\ ~isRecording
  /\ ~isTranscribing
  /\ startPc = "idle"
  /\ workers' = [ w \in DOMAIN workers |->
                    IF /\ workers[w].pc = "fetch"
                       /\ workers[w].sliceIndex \in DOMAIN activeRequests
                       /\ activeRequests[workers[w].sliceIndex] = w
                    THEN [ workers[w] EXCEPT !.aborted = TRUE, !.stale = TRUE ]
                    ELSE [ workers[w] EXCEPT !.stale = TRUE ] ]
  /\ activeRequests' = Empty
  /\ processedText' = << >>
  /\ isTranscribing' = FALSE
  /\ statuses' = resetStatuses(statuses)
  /\ statusErrors' = resetStatuses(statusErrors)
  /\ sliceTexts' = << >>
  /\ pollers' = Pending(pollers)
  /\ startPc' = "acquiring"
  /\ recordingError' = NoError
  /\ sessionIntervalMs' = sliceIntervalMs
  /\ UNCHANGED << isRecording, isPaused, audioSlices, streamRef, mediaRecorder,
                  orphans, chunksRef, pendingSliceRef, sliceCountRef,
                  sliceTimer, restartTimers, releaseTimers, events, budget,
                  recSession, mounted, sliceIntervalMs, sliceTimerMs, trackStops, emitted,
                  otherVars >>

\* startRecording after getUserMedia resolved, and the rest of handleStart
\* after "await startRecording()": the "recording" event and the toast
StartAcquired ==
  /\ startPc = "acquiring"
  /\ budget > 0
  /\ budget' = budget - 1
  /\ startPc' = "idle"
  /\ recSession' = recSession + 1
  /\ streamRef' = recSession + 1
  /\ mediaRecorder' = "recording"
  /\ orphans' = 0
  /\ chunksRef' = 0
  /\ audioSlices' = 0
  /\ sliceCountRef' = 0
  /\ emitted' = << >>
  /\ isRecording' = TRUE
  /\ sliceTimer' = TimerOn(FALSE)
  /\ sliceTimerMs' = sessionIntervalMs
  /\ trackStops' = ((recSession + 1) :> 0) @@ trackStops
  /\ UNCHANGED << isPaused, pendingSliceRef, restartTimers, releaseTimers,
                  events, mounted, sliceIntervalMs, sessionIntervalMs, recordingError, trVars, pollers,
                  pureVars >>
  /\ recordingState' = "recording"

\* startRecording when getUserMedia rejects: the catch block sets the error
\* message and returns normally, so handleStart goes on after its await
StartFailed(err) ==
  /\ startPc = "acquiring"
  /\ startPc' = "idle"
  /\ recordingError' = StartErrorMessage(err)
  /\ UNCHANGED << isRecording, isPaused, audioSlices, streamRef, mediaRecorder,
                  orphans, chunksRef, pendingSliceRef, sliceCountRef,
                  sliceTimer, restartTimers, releaseTimers, events, budget,
                  recSession, mounted, sliceIntervalMs, sessionIntervalMs, sliceTimerMs, trackStops, emitted, trVars, pollers,
                  pureVars >>
  /\ recordingState' = "recording"

\* boundary tick: createAudioSlice as captured by the running interval
createAudioSlice ==
  /\ sliceTimer.on
  /\ budget > 0
  /\ mediaRecorder = "recording"
  /\ streamRef # 0
  /\ pendingSliceRef' = TRUE
  /\ mediaRecorder' = "inactive"
  /\ \E d \in BOOLEAN : events' = StopEvents(d)
  /\ restartTimers' = Append(restartTimers, sliceTimer.isPaused)
  /\ UNCHANGED << isRecording, isPaused, audioSlices, streamRef, orphans,
                  chunksRef, sliceCountRef, sliceTimer, releaseTimers, budget,
                  startPc, recSession, mounted, sliceIntervalMs, sessionIntervalMs, sliceTimerMs, recordingError, trackStops, emitted, trVars, pollers,
                  otherVars >>

\* the 50 ms timeout armed by createAudioSlice
RestartFire ==
  /\ restartTimers # << >>
  /\ restartTimers' = Tail(restartTimers)
  /\ IF streamRef # 0 /\ ~Head(restartTimers)
     THEN /\ mediaRecorder' = "recording"
          /\ orphans' = orphans + (IF mediaRecorder = "recording" THEN 1 ELSE 0)
          /\ budget' = budget - 1
     ELSE UNCHANGED << mediaRecorder, orphans, budget >>
  /\ UNCHANGED << isRecording, isPaused, audioSlices, streamRef, chunksRef,
                  pendingSliceRef, sliceCountRef, sliceTimer, releaseTimers,
                  events, startPc, recSession, mounted, sliceIntervalMs, sessionIntervalMs, sliceTimerMs, recordingError, trackStops, emitted, trVars,
                  pollers,
                  otherVars >>

\* mediaRecorder.ondataavailable, with finalizeSlice and the synchronous head
\* of onSliceCreated -> handleSliceCreated -> processSliceRealtime
DataAvailable ==
  /\ events # << >>
  /\ events' = Tail(events)
  /\ IF Head(events)
     THEN IF pendingSliceRef
          THEN /\ sliceCountRef' = sliceCountRef + 1
               /\ audioSlices' = audioSlices + 1
               /\ chunksRef' = 0
               /\ pendingSliceRef' = FALSE
               /\ emitted' = Append(emitted, sliceCountRef)
               /\ statuses' = DispatchStatuses(statuses, sliceCountRef)
               /\ isTranscribing' = TRUE
               /\ workers' = (WorkerId(recSession, sliceCountRef)
                               :> NewWorker(sliceCountRef)) @@ workers
               /\ UNCHANGED << sliceTexts, processedText, activeRequests,
                               statusErrors >>
          ELSE /\ chunksRef' = chunksRef + 1
               /\ UNCHANGED << pendingSliceRef, sliceCountRef, audioSlices,
                               emitted, trVars >>
     ELSE UNCHANGED << chunksRef, pendingSliceRef, sliceCountRef, audioSlices,
                       emitted, trVars >>
  /\ UNCHANGED << isRecording, isPaused, streamRef, mediaRecorder, orphans,
                  sliceTimer, restartTimers, releaseTimers, budget, startPc,
                  recSession, mounted, sliceIntervalMs, sessionIntervalMs, sliceTimerMs, recordingError, trackStops, pollers,
                  otherVars >>

pauseRecording ==
  /\ mounted
  /\ mediaRecorder # "null"
  /\ isRecording
  /\ ~isPaused
  /\ IF mediaRecorder = "recording"
     THEN /\ pendingSliceRef' = TRUE
          /\ mediaRecorder' = "inactive"
          /\ \E d \in BOOLEAN : events' = StopEvents(d)
     ELSE UNCHANGED << pendingSliceRef, mediaRecorder, events >>
  /\ isPaused' = TRUE
  /\ sliceTimer' = TimerOff
  /\ sliceTimerMs' = 0
  /\ UNCHANGED << isRecording, audioSlices, streamRef, orphans, chunksRef,
                  sliceCountRef, restartTimers, releaseTimers, budget, startPc,
                  recSession, mounted, sliceIntervalMs, sessionIntervalMs, recordingError, trackStops, emitted, trVars, pollers,
                  otherVars >>

\* the interval armed here runs the createAudioSlice of the render in which
\* isPaused was true
resumeRecording ==
  /\ mounted
  /\ streamRef # 0
  /\ isRecording
  /\ isPaused
  /\ budget > 0
  /\ budget' = budget - 1
  /\ mediaRecorder' = "recording"
  /\ orphans' = orphans + (IF mediaRecorder = "recording" THEN 1 ELSE 0)
  /\ isPaused' = FALSE
  /\ sliceCountRef' = resumeCount(sliceCountRef)
  /\ sliceTimer' = TimerOn(TRUE)
  /\ sliceTimerMs' = ResumeInterval(sliceIntervalMs, sessionIntervalMs)
  /\ UNCHANGED << isRecording, audioSlices, streamRef, chunksRef,
                  pendingSliceRef, restartTimers, releaseTimers, events,
                  startPc, recSession, mounted, sliceIntervalMs, sessionIntervalMs, recordingError, trackStops, emitted, trVars, pollers,
                  otherVars >>

\* streamRef.current.getTracks().forEach((track) => track.stop())
StopTracks(ts, stream) == [ ts EXCEPT ![stream] = @ + 1 ]

\* the 200 ms timeout armed by stopRecording: stops the tracks of whatever
\* stream streamRef holds; a recorder still recording on it then stops
ReleaseFire ==
  /\ releaseTimers > 0
  /\ releaseTimers' = releaseTimers - 1
  /\ IF streamRef # 0
     THEN /\ trackStops' = StopTracks(trackStops, streamRef)
          /\ streamRef' = 0
          /\ mediaRecorder' = IF mediaRecorder = "recording" THEN "inactive"
                              ELSE mediaRecorder
          /\ orphans' = 0
          /\ events' = StopEvents(TRUE) \o [ i \in 1 .. orphans |-> TRUE ]
     ELSE UNCHANGED << streamRef, mediaRecorder, orphans, events,
                       trackStops >>
  /\ UNCHANGED << isRecording, isPaused, audioSlices, chunksRef,
                  pendingSliceRef, sliceCountRef, sliceTimer, restartTimers,
                  budget, startPc, recSession, mounted, sliceIntervalMs, sessionIntervalMs, sliceTimerMs, recordingError, emitted, trVars,
                  pollers,
                  otherVars >>

\* the cleanup of useAudioRecorder's mount effect, run when the component
\* unmounts (the only effect cleanup of the component and its hooks): clears
\* the boundary timer, stops and forgets a recorder that is not inactive, stops
\* the tracks of the stream streamRef holds.  Timeouts already armed, the
\* pending getUserMedia and the workers in flight are not cancelled.
Unmount ==
  /\ mounted
  /\ mounted' = FALSE
  /\ sliceTimer' = TimerOff
  /\ sliceTimerMs' = 0
  /\ mediaRecorder' = IF mediaRecorder = "recording" THEN "null"
                      ELSE mediaRecorder
  /\ \E d \in BOOLEAN :
       events' = StopEvents(d) \o
                 (IF streamRef # 0 THEN [ i \in 1 .. orphans |-> TRUE ]
                  ELSE << >>)
  /\ IF streamRef # 0
     THEN /\ trackStops' = StopTracks(trackStops, streamRef)
          /\ streamRef' = 0
          /\ orphans' = 0
     ELSE UNCHANGED << trackStops, streamRef, orphans >>
  /\ UNCHANGED << isRecording, isPaused, audioSlices, chunksRef,
                  pendingSliceRef, sliceCountRef, restartTimers, releaseTimers,
                  budget, startPc, recSession, recordingError, sliceIntervalMs,
                  sessionIntervalMs, emitted, trVars, pollers,
                  otherVars >>

\* the stored audio preferences change (settings page, another tab's storage
\* event or the broadcast event): setPreferencesState, and the next render
\* passes the new sliceIntervalMs to useAudioRecorder
SetPreferences(ms) ==
  /\ mounted
  /\ ms # sliceIntervalMs
  /\ sliceIntervalMs' = ms
  /\ UNCHANGED << isRecording, isPaused, audioSlices, streamRef, mediaRecorder,
                  orphans, chunksRef, pendingSliceRef, sliceCountRef,
                  sliceTimer, restartTimers, releaseTimers, events, budget,
                  startPc, recSession, emitted, mounted, trackStops,
                  recordingError, sessionIntervalMs, sliceTimerMs, trVars,
                  pollers,
                  otherVars >>

\* ------------------------------------------------- processSliceRealtime steps
\* hasSpeech resolved (it is a function of the slice's audio, so it gives the
\* same answer on a retry)
VadDone(w, sliceHasSpeech) ==
  /\ w \in DOMAIN workers
  /\ workers[w].pc = "vad"
  /\ workers[w].attempt > 1 => sliceHasSpeech
  /\ LET i == workers[w].sliceIndex IN
     IF ~sliceHasSpeech
     THEN /\ sliceTexts' = MapSet(sliceTexts, i, EmptyText)
          /\ statuses' = SetStatus(statuses, i, "skipped")
          /\ isTranscribing' = FlagAfter(activeRequests, isTranscribing)
          /\ workers' = Remove(workers, w)
          /\ UNCHANGED << processedText, activeRequests >>
     ELSE /\ statuses' = SetStatus(statuses, i, "processing")
          /\ activeRequests' = (i :> w) @@ activeRequests
          /\ workers' = [ workers EXCEPT ![w].pc = "fetch" ]
          /\ UNCHANGED << sliceTexts, processedText, isTranscribing >>
  /\ UNCHANGED << recVars, statusErrors, pollers,
                  otherVars >>

\* the request succeeded with data.text = t
FetchOk(w, t) ==
  /\ w \in DOMAIN workers
  /\ workers[w].pc = "fetch"
  /\ ~workers[w].aborted
  /\ LET i == workers[w].sliceIndex IN
     /\ sliceTexts' = MapSet(sliceTexts, i, t)
     /\ processedText' = reassembleText(sliceTexts')
     /\ statuses' = SetStatus(statuses, i, "completed")
     /\ activeRequests' = Remove(activeRequests, i)
     /\ isTranscribing' = FlagAfter(activeRequests', isTranscribing)
     /\ workers' = Remove(workers, w)
  /\ UNCHANGED << recVars, statusErrors, pollers,
                  otherVars >>

\* the request failed (response not ok, or fetch threw) with error.message
FetchFail(w, message) ==
  /\ w \in DOMAIN workers
  /\ workers[w].pc = "fetch"
  /\ ~workers[w].aborted
  /\ LET i == workers[w].sliceIndex IN
     IF CanRetry(message, workers[w].attempt)
     THEN /\ workers' = [ workers EXCEPT ![w].pc = "backoff",
                            ![w].delay = BackoffDelay(workers[w].attempt) ]
          /\ UNCHANGED << statuses, statusErrors, activeRequests,
                          isTranscribing >>
     ELSE /\ statuses' = SetStatus(statuses, i, "error")
          /\ statusErrors' = SetError(statusErrors, statuses, i, message)
          /\ activeRequests' = Remove(activeRequests, i)
          /\ isTranscribing' = FlagAfter(activeRequests', isTranscribing)
          /\ workers' = Remove(workers, w)
  /\ UNCHANGED << recVars, sliceTexts, processedText, pollers,
                  otherVars >>

\* the request was aborted: catch branch for AbortError
FetchAborted(w) ==
  /\ w \in DOMAIN workers
  /\ workers[w].pc = "fetch"
  /\ workers[w].aborted
  /\ activeRequests' = Remove(activeRequests, workers[w].sliceIndex)
  /\ isTranscribing' = FlagAfter(activeRequests', isTranscribing)
  /\ workers' = Remove(workers, w)
  /\ UNCHANGED << recVars, statuses, statusErrors, sliceTexts, processedText,
                  pollers,
                  otherVars >>

\* variant: the next iteration keeps the attempt number
BackoffDoneSameAttempt(w) ==
  /\ w \in DOMAIN workers
  /\ workers[w].pc = "backoff"
  /\ workers' = [ workers EXCEPT ![w].pc = "vad", ![w].delay = 0 ]
  /\ UNCHANGED << recVars, statuses, statusErrors, sliceTexts, processedText,
                  isTranscribing, activeRequests, pollers,
                  otherVars >>

\* the backoff timeout (1000 * attempt ms) elapsed: next loop iteration
BackoffDone(w) ==
  /\ w \in DOMAIN workers
  /\ workers[w].pc = "backoff"
  /\ workers' = [ workers EXCEPT ![w].pc = "vad", ![w].attempt = @ + 1,
                                  ![w].delay = 0 ]
  /\ UNCHANGED << recVars, statuses, statusErrors, sliceTexts, processedText,
                  isTranscribing, activeRequests, pollers,
                  otherVars >>

\* ------------------------------------------------------ DictationInterface
\* allProcessed of checkAndSave
AllProcessed(st, sliceCount) ==
  /\ Cardinality(DOMAIN st) >= sliceCount
  /\ \A i \in DOMAIN st : st[i] \in Terminal

\* a handleStop call waiting to run checkAndSave
NewPoller(d) ==
  [ pc |-> "polling", duration |-> d, checkCount |-> 0, outcome |-> "none",
    saves |-> 0, savedText |-> << >>, savedDuration |-> 0 ]

\* a handleStop call that schedules no further check; its locals are dead.
\* outcome: what it reported; saves, savedText, savedDuration: its calls of
\* saveTranscription(text, duration)
Decided(outcome, saves, text, d) ==
  [ pc |-> "done", duration |-> 0, checkCount |-> 0, outcome |-> outcome,
    saves |-> saves, savedText |-> text, savedDuration |-> d ]

\* variant of FinalizeRecording without the empty-text guard
FinalizeRecordingAlways(p, why) ==
  Decided(why, p.saves + 1, Trim(processedText), p.duration)

\* finalizeRecording.current(duration) as invoked by poller p: a warning when
\* the trimmed transcript is empty, else saveTranscription(finalText, duration)
FinalizeRecording(p, why) ==
  LET finalText == Trim(processedText) IN
  IF finalText = << >>
  THEN Decided("silent", p.saves, << >>, 0)
  ELSE Decided(why, p.saves + 1, finalText, p.duration)

\* variant of TimedOut that never gives up
TimedOutNever(checkCount) == FALSE

\* "checkCount >= MAX_CHECKS"
TimedOut(checkCount) == checkCount >= MAX_CHECKS

\* variant of OnTimeout that saves nothing
OnTimeoutDrop(p) == Decided("timeoutError", p.saves, << >>, 0)

\* the timeout branch of checkAndSave
OnTimeout(p) ==
  IF Trim(processedText) # << >>
  THEN FinalizeRecording(p, "timeoutSaved")
  ELSE Decided("timeoutError", p.saves, << >>, 0)

\* the recordingTime state that handleStop reads.  The value is only passed on
\* (to saveTranscription), never computed with, so every recording session is
\* given a value of its own.
recordingTime == recSession

\* handleStop up to its first await: stopRecording, then the finalizer waits.
\* The stop button is rendered while isRecording.  Environment: stop is not
\* pressed while the finalizer of an earlier stop is still polling (finalizers
\* only read the shared state, so they do not influence one another).
HandleStop ==
  /\ mounted
  /\ isRecording
  /\ mediaRecorder # "null"
  /\ \A s \in DOMAIN pollers : pollers[s].pc # "polling"
  /\ sliceTimer' = TimerOff
  /\ sliceTimerMs' = 0
  /\ IF mediaRecorder = "recording"
     THEN /\ pendingSliceRef' = TRUE
          /\ mediaRecorder' = "inactive"
          /\ \E d \in BOOLEAN : events' = StopEvents(d)
     ELSE UNCHANGED << pendingSliceRef, mediaRecorder, events >>
  /\ isRecording' = FALSE
  /\ isPaused' = FALSE
  /\ releaseTimers' = releaseTimers + 1
  /\ pollers' = (recSession :> NewPoller(recordingTime)) @@ pollers
  /\ UNCHANGED << audioSlices, streamRef, orphans, chunksRef, sliceCountRef,
                  restartTimers, budget, startPc, recSession, mounted, sliceIntervalMs, sessionIntervalMs, recordingError, trackStops,
                  emitted, trVars,
                  pureVars >>
  /\ recordingState' = "stopped"

\* one run of checkAndSave (the first 300 ms after stop, the others 500 ms apart)
CheckAndSave(s) ==
  /\ s \in DOMAIN pollers
  /\ pollers[s].pc = "polling"
  /\ LET p == [ pollers[s] EXCEPT !.checkCount = @ + 1 ]
         currentSliceCount == audioSlices
         allProcessed == AllProcessed(statuses, currentSliceCount)
     IN pollers' = [ pollers EXCEPT ![s] =
          IF allProcessed /\ currentSliceCount > 0
          THEN FinalizeRecording(p, "saved")
          ELSE IF currentSliceCount = 0
          THEN Decided("noAudio", p.saves, << >>, 0)
          ELSE IF TimedOut(p.checkCount)
          THEN OnTimeout(p)
          ELSE p ]
  /\ UNCHANGED << recVars, trVars,
                  otherVars >>

\* ---------------------------------------------------------------- the system
\* Event-loop order.  An aborted fetch rejects at once, so its catch block runs
\* before any other task; a stopped recorder delivers its dataavailable event
\* before any timer, input or response is handled; the 50 ms and 200 ms
\* timeouts elapse, and a running voice-activity check (a local decode of one
\* slice) resolves, before a 300 / 500 / 1000 ms timeout or a slice interval
\* (3000 ms or more) does.
AbortPending == \E w \in DOMAIN workers : workers[w].aborted
Calm == ~AbortPending /\ events = << >>
NoShortTimer ==
  /\ restartTimers = << >>
  /\ releaseTimers = 0
  /\ \A w \in DOMAIN workers : workers[w].pc # "vad"

\* every step but the finalizer's polling and the rejection of getUserMedia
NextDevice ==
  \/ AbortPending /\ \E w \in DOMAIN workers : FetchAborted(w)
  \/ ~AbortPending /\ DataAvailable
  \/ Calm /\ HandleStart
  \/ Calm /\ StartAcquired
  \/ Calm /\ pauseRecording
  \/ Calm /\ resumeRecording
  \/ Calm /\ HandleStop
  \/ Calm /\ RestartFire
  \/ Calm /\ ReleaseFire
  \/ Calm /\ \E w \in DOMAIN workers, sp \in BOOLEAN : VadDone(w, sp)
  \/ Calm /\ \E w \in DOMAIN workers :
               \E t \in ServerTexts(workers[w].sliceIndex) : FetchOk(w, t)
  \/ Calm /\ \E w \in DOMAIN workers, m \in ErrorMessages : FetchFail(w, m)
  \/ Calm /\ NoShortTimer /\ createAudioSlice
  \/ Calm /\ NoShortTimer /\ \E w \in DOMAIN workers : BackoffDone(w)

\* every step but the finalizer's polling
NextW ==
  \/ NextDevice
  \/ Calm /\ \E err \in StartErrors : StartFailed(err)

Next ==
  \/ NextW
  \/ Calm /\ NoShortTimer /\ \E s \in DOMAIN pollers : CheckAndSave(s)

Spec == Init /\ [][Next]_vars

\* The finalizer of handleStop with a microphone that can be acquired.  A
\* rejected getUserMedia only sets the error message of the recorder and
\* dispatches the recording-state event; neither is read by checkAndSave, by
\* the workers or by reset, so the rejection is left to NextW.
NextFinalizer ==
  \/ NextDevice
  \/ Calm /\ NoShortTimer /\ \E s \in DOMAIN pollers : CheckAndSave(s)

SpecFinalizer == Init /\ [][NextFinalizer]_vars

\* the recorder, the workers and reset, with a larger recorder budget
InitW == InitWith(MaxSlicesW)

SpecWorkers == InitW /\ [][NextW]_vars

\* one recording session without a reset after its start, with the progress
\* the event loop and the awaited promises make
MaxSlicesL == 2

InitL == InitWith(MaxSlicesL)

\* a step of some running processSliceRealtime call
WorkerStep ==
  \/ Calm /\ \E w \in DOMAIN workers, sp \in BOOLEAN : VadDone(w, sp)
  \/ Calm /\ \E w \in DOMAIN workers :
               \E t \in ServerTexts(workers[w].sliceIndex) : FetchOk(w, t)
  \/ Calm /\ \E w \in DOMAIN workers, m \in ErrorMessages : FetchFail(w, m)
  \/ Calm /\ NoShortTimer /\ \E w \in DOMAIN workers : BackoffDone(w)

NextL ==
  \/ DataAvailable
  \/ Calm /\ recSession = 0 /\ HandleStart
  \/ Calm /\ StartAcquired
  \/ Calm /\ \E err \in StartErrors : StartFailed(err)
  \/ Calm /\ pauseRecording
  \/ Calm /\ resumeRecording
  \/ Calm /\ HandleStop
  \/ Calm /\ RestartFire
  \/ Calm /\ ReleaseFire
  \/ Calm /\ NoShortTimer /\ createAudioSlice
  \/ WorkerStep

\* queued events are handled, the 50 ms and 200 ms timeouts fire, and every
\* voice-activity check, request and backoff wait comes to an end
FairL ==
  /\ WF_vars(DataAvailable)
  /\ WF_vars(Calm /\ RestartFire)
  /\ WF_vars(Calm /\ ReleaseFire)
  /\ WF_vars(WorkerStep)

SpecLive == InitL /\ [][NextL]_vars /\ FairL

\* the recorder, the workers and reset, with the component's teardown
NextT ==
  \/ NextW
  \/ Calm /\ Unmount

SpecTeardown == InitW /\ [][NextT]_vars

\* the recorder, the workers and reset, with changes of the preferences
NextP ==
  \/ NextW
  \/ Calm /\ \E ms \in SliceIntervals : SetPreferences(ms)

SpecPreferences == InitW /\ [][NextP]_vars

\* ------------------------------------------- responses that are not response.ok
\* the statuses of the failed responses considered
FailedStatuses == { 500, 503 }
\* what errorData.error holds when the body is JSON; "" stands for a body with
\* no (or a falsy) error field
BodyErrors == { "", "Transcription failed", "Service Unavailable" }
\* a failed response: its status, whether response.json() resolves, and the
\* error field of the parsed body
FailedResponses ==
  { [ status |-> st, json |-> FALSE, error |-> "" ] : st \in FailedStatuses }
  \cup { [ status |-> st, json |-> TRUE, error |-> e ] :
           st \in FailedStatuses, e \in BodyErrors }

\* `Transcription failed (HTTP ${response.status})`
HttpMessage(status) ==
  CASE status = 503 -> RetryableMessage
    [] status = 500 -> "Transcription failed (HTTP 500)"

\* the message of the Error thrown for a response that is not ok:
\* errorData = await response.json().catch(() => ({ error: "Unknown error" }))
\* and errorData.error || `Transcription failed (HTTP ${response.status})`
ErrorOf(r) ==
  IF ~r.json THEN "Unknown error"
  ELSE IF r.error # "" THEN r.error
  ELSE HttpMessage(r.status)

\* fetch resolved with a response that is not ok; the Error thrown is caught
\* by the worker's catch block
ResponseNotOk(w, r) == FetchFail(w, ErrorOf(r))

\* the recorder, the workers and reset, with the failed responses spelled out
NextF ==
  \/ NextW
  \/ Calm /\ \E w \in DOMAIN workers, r \in FailedResponses :
               ResponseNotOk(w, r)

SpecResponses == InitW /\ [][NextF]_vars

\* ------------------------------------------------- reassembleText on its own
\* most slice indices given to reassembleText in SpecReassemble
MaxKeys == 3
\* fragments, with and without a blank at either end
FragTexts == { EmptyText, Hello, ThereFriend, << SP, "x" >>, << "y", SP >> }

\* "sliceTextsRef.current.set(sliceIndex, sliceText); reassembleText()" for an
\* index not yet in the store
StoreSet(k, t) ==
  /\ ~MapHas(sliceTexts, k)
  /\ sliceTexts' = MapSet(sliceTexts, k, t)
  /\ processedText' = reassembleText(sliceTexts')
  /\ UNCHANGED << recVars, statuses, isTranscribing, activeRequests, workers,
                  statusErrors, pollers,
                  otherVars >>

InitR == InitWith(0)

NextR == \E k \in 0 .. (MaxKeys - 1), t \in FragTexts : StoreSet(k, t)

SpecReassemble == InitR /\ [][NextR]_vars

\* ------------------------------------------- the dictionary cache on its own
\* most transcription requests and dictionary writes in SpecDictionary
MaxRequests == 3
MaxWrites == 2

\* POST /api/transcribe up to its first await: a fresh cache entry is used,
\* otherwise dictionaryRepo.find is awaited
TranscribeStart ==
  /\ Len(requests) < MaxRequests
  /\ requests' = Append(requests,
       IF dictionaryCache # NoEntry
       THEN [ pc |-> "done", words |-> dictionaryCache, after |-> written ]
       ELSE [ pc |-> "find", words |-> NoEntry, after |-> written ])
  /\ UNCHANGED << dictionaryDb, dictionaryCache, writer, written >>

\* the database runs the query of dictionaryRepo.find
FindReads(r) ==
  /\ requests[r].pc = "find"
  /\ requests' = [ requests EXCEPT ![r].pc = "fetched",
                                     ![r].words = dictionaryDb ]
  /\ UNCHANGED << dictionaryDb, dictionaryCache, writer, written >>

\* the await of find resumes: dictionaryWords = fetchedWords and
\* dictionaryCache.set(userId, { words, timestamp })
FindResolves(r) ==
  /\ requests[r].pc = "fetched"
  /\ dictionaryCache' = requests[r].words
  /\ requests' = [ requests EXCEPT ![r].pc = "done" ]
  /\ UNCHANGED << dictionaryDb, writer, written >>

\* POST, PUT or DELETE /api/dictionary up to "await dictionaryRepo.save(...)"
\* (or remove): the database holds the new version
WriteSave ==
  /\ writer = "idle"
  /\ dictionaryDb < MaxWrites
  /\ dictionaryDb' = dictionaryDb + 1
  /\ writer' = "saved"
  /\ UNCHANGED << dictionaryCache, requests, written >>

\* the handler resumes: invalidateDictionaryCache(userId) and the response
WriteInvalidate ==
  /\ writer = "saved"
  /\ dictionaryCache' = NoEntry
  /\ written' = dictionaryDb
  /\ writer' = "idle"
  /\ UNCHANGED << dictionaryDb, requests >>

\* the entry is older than CACHE_TTL_MS: the cleanup interval deletes it
\* (an expired entry that is still in the map is not used either)
CacheExpires ==
  /\ dictionaryCache # NoEntry
  /\ dictionaryCache' = NoEntry
  /\ UNCHANGED << dictionaryDb, requests, writer, written >>

NextC ==
  /\ \/ TranscribeStart
     \/ \E r \in DOMAIN requests : FindReads(r)
     \/ \E r \in DOMAIN requests : FindResolves(r)
     \/ WriteSave
     \/ WriteInvalidate
     \/ CacheExpires
  /\ UNCHANGED << recVars, trVars, pollers, routeText, previousContext,
                  cleanedText, engine, validatedText, reply, blob, vad,
                  recordingState >>

\* nothing else runs
InitC == InitWith(0)

SpecDictionary == InitC /\ [][NextC]_vars

\* ==================================================================== claims
\* ------------------------------------------------------- hasSpeech on its own
\* amplitudes are in thousandths: the sample 0.5 is 500
DEFAULT_AMPLITUDE_THRESHOLD == 15
\* in thousandths: 0.005 is 5
DEFAULT_RATIO_THRESHOLD == 5

\* most runs of equal samples in a decoded channel
MaxRuns == 2
Samples == { 0, 10, 15, -500 }
RunLengths == { 1, 199 }
\* channelData as a list of runs: << sample, how many times in a row >>
Channels ==
  UNION { [ 1 .. k -> Samples \X RunLengths ] : k \in 0 .. MaxRuns }

\* slices given to hasSpeech: with or without window.AudioContext; the empty
\* blob, a corrupt blob, a blob that decodes to a channel (of any length)
Blobs ==
  { [ EmptyBlob EXCEPT !.audioContext = a ] : a \in BOOLEAN }
  \cup { [ size |-> 1, audioContext |-> a, decodes |-> FALSE,
           channelData |-> << >> ] : a \in BOOLEAN }
  \cup { [ size |-> 1, audioContext |-> a, decodes |-> TRUE,
           channelData |-> d ] : a \in BOOLEAN, d \in Channels }

Abs(x) == IF x < 0 THEN 0 - x ELSE x

\* variant: a sample at the threshold is not counted
isAboveOnly(absSample, amplitudeThreshold) == absSample > amplitudeThreshold

\* absSample >= amplitudeThreshold
isAbove(absSample, amplitudeThreshold) == absSample >= amplitudeThreshold

\* channelData.length
RECURSIVE ChannelLength(_)
ChannelLength(runs) ==
  IF runs = << >> THEN 0 ELSE Head(runs)[2] + ChannelLength(Tail(runs))

\* the loop's sumSquares, a run at a time
RECURSIVE sumSquares(_)
sumSquares(runs) ==
  IF runs = << >> THEN 0
  ELSE Head(runs)[1] * Head(runs)[1] * Head(runs)[2] + sumSquares(Tail(runs))

\* the loop's aboveThresholdCount, a run at a time
RECURSIVE aboveThresholdCount(_, _)
aboveThresholdCount(runs, amplitudeThreshold) ==
  IF runs = << >> THEN 0
  ELSE (IF isAbove(Abs(Head(runs)[1]), amplitudeThreshold)
        THEN Head(runs)[2] ELSE 0)
       + aboveThresholdCount(Tail(runs), amplitudeThreshold)

\* "rms >= amplitudeThreshold || ratio >= ratioThreshold" in exact
\* arithmetic: sqrt(sumSquares / n) >= t is sumSquares >= t * t * n, and
\* count / n >= r / 1000 is count * 1000 >= r * n
analyse(runs, amplitudeThreshold, ratioThreshold) ==
  LET n == ChannelLength(runs) IN
  \/ sumSquares(runs) >= amplitudeThreshold * amplitudeThreshold * n
  \/ aboveThresholdCount(runs, amplitudeThreshold) * 1000 >= ratioThreshold * n

\* the catch block: "defaulting to has speech"
onDecodeError == TRUE

hasSpeech(b) ==
  IF ~b.audioContext THEN TRUE
  ELSE IF ~b.decodes THEN onDecodeError
  ELSE IF ChannelLength(b.channelData) = 0 THEN FALSE
  ELSE analyse(b.channelData, DEFAULT_AMPLITUDE_THRESHOLD,
               DEFAULT_RATIO_THRESHOLD)

\* hasSpeech is called with some slice
InitV ==
  /\ InitHooks(0)
  /\ InitCache
  /\ InitRoute
  /\ blob \in Blobs
  /\ vad = VadPending

VadReturns ==
  /\ ~vad.done
  /\ vad' = [ done |-> TRUE, value |-> hasSpeech(blob) ]
  /\ UNCHANGED << recVars, trVars, pollers, routeText, previousContext,
                  cleanedText, engine, validatedText, reply, blob,
                  dictVars, recordingState >>

NextV == VadReturns

SpecVad == InitV /\ [][NextV]_vars

\* ------------------------------------------- removeDuplicatesHeuristic on its own
\* a JS string is the sequence of its characters
\* longest text and longest context given to the heuristics
MaxTextLen == 4
Chars == { "a", "A", "b", SP }
Strings(n) == UNION { [ 1 .. k -> Chars ] : k \in 0 .. n }

LowerChar(c) == IF c = "A" THEN "a" ELSE c
\* String.prototype.toLowerCase
toLowerCase(str) == [ i \in 1 .. Len(str) |-> LowerChar(str[i]) ]
\* String.prototype.startsWith
startsWith(str, prefix) ==
  /\ Len(prefix) <= Len(str)
  /\ SubSeq(str, 1, Len(prefix)) = prefix
\* str.slice(n) for n >= 0
slice(str, n) == IF n >= Len(str) THEN << >> ELSE SubSeq(str, n + 1, Len(str))
\* str.slice(-n) for n >= 0; slice(-0) is slice(0), the whole string
sliceLast(str, n) ==
  IF n = 0 \/ n >= Len(str) THEN str
  ELSE SubSeq(str, Len(str) - n + 1, Len(str))

\* first index from i on that holds no blank (Len(str) + 1 if none)
RECURSIVE SkipBlanks(_, _)
SkipBlanks(str, i) ==
  IF i > Len(str) THEN i
  ELSE IF str[i] = SP THEN SkipBlanks(str, i + 1) ELSE i

\* str.split(/\s+/): a leading or trailing run of blanks gives an empty first
\* or last word, and "" splits into one empty word
RECURSIVE SplitFrom(_, _, _)
SplitFrom(str, i, word) ==
  IF i > Len(str) THEN << word >>
  ELSE IF str[i] = SP
       THEN << word >> \o SplitFrom(str, SkipBlanks(str, i), << >>)
       ELSE SplitFrom(str, i + 1, Append(word, str[i]))

split(str) == SplitFrom(str, 1, << >>)

\* words.join(' ')
RECURSIVE join(_)
join(words) ==
  IF words = << >> THEN << >>
  ELSE IF Len(words) = 1 THEN words[1]
  ELSE words[1] \o << SP >> \o join(Tail(words))

Min(a, b) == IF a <= b THEN a ELSE b

\* Math.min(50, Math.floor(previousContext.length * 0.5))
overlapCheckLength(context) == Min(50, Len(context) \div 2)

\* prevWords.slice(-Math.min(10, prevWords.length))
lastNWords(prevWords) == sliceLast(prevWords, Min(10, Len(prevWords)))

\* lastNWords.filter((word, idx) => textWords[idx]?.toLowerCase() === word.toLowerCase()).length
overlapCount(window, textWords) ==
  Cardinality({ idx \in 1 .. Len(window) :
                  /\ idx <= Len(textWords)
                  /\ toLowerCase(textWords[idx]) = toLowerCase(window[idx]) })

\* Math.ceil(n * 0.7) for n in 1 .. 10 (the doubles n * 0.7 round up to the
\* same integers as 7n/10)
Ceil70(n) == (7 * n + 9) \div 10

\* variant: the first case never applies
noExactDuplicate(textLower, prevLower) == FALSE

\* Case 1: textLower === prevLower
isExactDuplicate(textLower, prevLower) == textLower = prevLower

\* variant: the prefix case cuts as many characters as the suffix case
prefixCutHalf(context) == Len(context) \div 2

\* Case 2 cuts previousContext.length characters
prefixCut(context) == Len(context)

\* the least number of context words for Case 4
minPrevWords == 3

\* variant: Case 4 applies to a context of any number of words
enoughPrevWordsAny(prevWords) == TRUE

\* "if (prevWords.length >= 3)"
enoughPrevWords(prevWords) == Len(prevWords) >= minPrevWords

\* Case 4: word-level overlap at the start
wordLevel(txt, context) ==
  LET prevWords == split(context)
      textWords == split(txt)
      window == lastNWords(prevWords)
      count == overlapCount(window, textWords)
  IN  IF enoughPrevWords(prevWords) /\ count >= Ceil70(Len(window))
      THEN join(slice(textWords, count))
      ELSE txt

removeDuplicatesHeuristic(txt, context) ==
  IF context = << >> \/ txt = << >> THEN txt
  ELSE LET prevLower == Trim(toLowerCase(context))
           textLower == Trim(toLowerCase(txt))
           prevSuffix == sliceLast(prevLower, overlapCheckLength(context))
       IN  IF isExactDuplicate(textLower, prevLower) THEN << >>
           ELSE IF startsWith(textLower, prevLower)
                THEN Trim(slice(txt, prefixCut(context)))
           ELSE IF startsWith(textLower, prevSuffix)
                THEN Trim(slice(txt, overlapCheckLength(context)))
           ELSE wordLevel(txt, context)

\* a request with some transcription and some context arrives
InitD ==
  /\ InitHooks(0)
  /\ InitCache
  /\ InitVad
  /\ routeText \in Strings(MaxTextLen)
  /\ previousContext \in Strings(MaxTextLen)
  /\ cleanedText = NotRun
  /\ engine = "gemini"
  /\ validatedText = NotRun
  /\ reply = NoReply

\* "let cleanedText = removeDuplicatesHeuristic(text, previousContext)"
Heuristic ==
  /\ cleanedText = NotRun
  /\ cleanedText' = removeDuplicatesHeuristic(routeText, previousContext)
  /\ UNCHANGED << recVars, trVars, pollers, routeText, previousContext, engine,
                  validatedText, reply, blob, vad, dictVars, recordingState >>

NextD == Heuristic

SpecDedup == InitD /\ [][NextD]_vars

\* most words of a sentence given to removeDuplicatesHeuristic in SpecWords
MaxWords == 4
\* the words of those sentences
WordSet == { << "a" >>, << "A" >>, << "b" >> }
\* sentences of up to n words separated by single blanks
Sentences(n) == { join(ws) : ws \in UNION { [ 1 .. k -> WordSet ] : k \in 1 .. n } }

\* a request whose transcription and context are sentences or short strings
InitWd ==
  /\ InitHooks(0)
  /\ InitCache
  /\ InitVad
  /\ routeText \in Strings(MaxTextLen) \cup Sentences(MaxWords)
  /\ previousContext \in Strings(MaxTextLen) \cup Sentences(MaxWords)
  /\ cleanedText = NotRun
  /\ engine = "gemini"
  /\ validatedText = NotRun
  /\ reply = NoReply

SpecWords == InitWd /\ [][NextD]_vars

\* ------------------------------------- the POST handler after the transcription
\* the workflows: Gemini (route.ts, and the fallback of part_005) and Whisper
Engines == { "gemini", "whisper" }

\* new Set(str.toLowerCase().replace(/[^\w\s]/g, '').split(/\s+/)); the
\* strings of the model hold no character that the replace removes
WordsOf(str) ==
  LET ws == split(toLowerCase(str)) IN { ws[i] : i \in 1 .. Len(ws) }

\* calculateSimilarity(str1, str2) > pct / 100, the ratio being
\* intersection.size / union.size, and 0 when either string is empty
similarityAbove(str1, str2, pct) ==
  /\ str1 # << >>
  /\ str2 # << >>
  /\ Cardinality(WordsOf(str1) \cap WordsOf(str2)) * 100
       > pct * Cardinality(WordsOf(str1) \cup WordsOf(str2))

\* what the branch taken on a high similarity does: the Whisper workflow
\* returns the empty text (similarity > 0.90), the Gemini workflows only log
\* (similarity > 0.85)
similarityErases(eng, txt, context) ==
  /\ eng = "whisper"
  /\ context # << >>
  /\ similarityAbove(txt, context, 90)

\* what the validation model may answer
ValidationOutcomes == { "duplicate", "asIs", "shortened", "failed" }

\* validateTranscriptionWithAI / validateTranscriptionWithOpenAI once the
\* request to the model is made: '' for the [DUPLICATE] sentinel, the model's
\* text otherwise, the original text when the request fails
validate(txt, outcome) ==
  CASE outcome = "duplicate" -> << >>
    [] outcome = "shortened" -> join(Tail(split(txt)))
    [] OTHER -> txt

Reply(txt, dup) == [ sent |-> TRUE, text |-> txt, duplicate |-> dup ]

\* variant: the validation is also asked about texts of 3 words
needsValidationFrom3(txt, context) ==
  context # << >> /\ Len(split(txt)) >= 3

\* "previousContext && cleanedText.split(/\s+/).length > 3"
needsValidation(txt, context) ==
  context # << >> /\ Len(split(txt)) > 3

\* the Gemini workflow's clean-up of the model's text before the heuristic:
\* .replace(/\s+/g, ' ') ... .trim() leaves no blank at either end and no two
\* blanks in a row; the Whisper workflow passes the text on as it came
isCleanedUp(txt) ==
  /\ Trim(txt) = txt
  /\ \A i \in 1 .. (Len(txt) - 1) : ~(txt[i] = SP /\ txt[i + 1] = SP)

\* the handler from "if (!cleanedText)" to its success response
Finish(outcome) ==
  /\ cleanedText # NotRun
  /\ ~reply.sent
  /\ IF cleanedText = << >>
     THEN /\ reply' = Reply(<< >>, TRUE)
          /\ UNCHANGED validatedText
     ELSE IF similarityErases(engine, cleanedText, previousContext)
     THEN /\ reply' = Reply(<< >>, TRUE)
          /\ UNCHANGED validatedText
     ELSE IF needsValidation(cleanedText, previousContext)
     THEN /\ validatedText' = validate(cleanedText, outcome)
          /\ reply' = Reply(validatedText', validatedText' = << >>)
     ELSE /\ reply' = Reply(cleanedText, FALSE)
          /\ UNCHANGED validatedText
  /\ UNCHANGED << recVars, trVars, pollers, routeText, previousContext,
                  cleanedText, engine, blob, vad, dictVars, recordingState >>

\* a request arrives at one of the workflows
InitPl ==
  /\ InitHooks(0)
  /\ InitCache
  /\ InitVad
  /\ routeText \in Strings(MaxTextLen) \cup Sentences(MaxWords)
  /\ previousContext \in { << >> } \cup Sentences(MaxWords)
  /\ cleanedText = NotRun
  /\ engine \in Engines
  /\ engine = "gemini" => isCleanedUp(routeText)
  /\ validatedText = NotRun
  /\ reply = NoReply

NextPl ==
  \/ Heuristic
  \/ \E outcome \in ValidationOutcomes : Finish(outcome)

SpecPipeline == InitPl /\ [][NextPl]_vars

\* C1: in a recording session the slice indices handed to onSliceCreated are
\* exactly 0, 1, ..., N-1 in increasing order, without gap or repeat, for every
\* sequence of ticks, pause, resume and stop; N is the slice counter, which
\* only start resets (resume does not).
C1_SliceIndicesContiguous ==
  /\ Len(emitted) = sliceCountRef
  /\ \A k \in 1 .. Len(emitted) : emitted[k] = k - 1

\* C1 witness: recording goes on after a pause and a resume, and the counter
\* still stands at the one slice emitted before
C1_Witness ==
  /\ sliceTimer = TimerOn(TRUE)
  /\ ~isPaused
  /\ emitted = << 0 >>
  /\ sliceCountRef = 1

\* the status steps the claim allows: stay, pending -> processing,
\* pending -> skipped, processing -> completed, processing -> error
StatusStepAllowed(a, b) ==
  \/ a = b
  \/ a = "pending" /\ b \in { "processing", "skipped" }
  \/ a = "processing" /\ b \in { "completed", "error" }

\* C2: the status record of a slice only moves forward (pending -> processing
\* -> completed | error, or pending -> skipped); a terminal status never
\* changes and no status returns to pending, for every interleaving of
\* workers, including a worker still running from before a reset.
C2_StatusMonotone ==
  [][ \A i \in (DOMAIN statuses) \cap (DOMAIN statuses') :
        StatusStepAllowed(statuses[i], statuses'[i]) ]_vars

\* the non-empty fragments of a store as a set of <<index, text>> pairs
Fragments(m) == { m[j] : j \in { n \in 1 .. Len(m) : m[n][2] # << >> } }

Glue(left, t) ==
  IF left = << >> THEN t
  ELSE IF left[Len(left)] = SP \/ t[1] = SP THEN left \o t
  ELSE left \o << SP >> \o t

\* concatenation of a set of fragments by ascending index
RECURSIVE OrderedConcat(_)
OrderedConcat(S) ==
  IF S = { } THEN << >>
  ELSE LET top == CHOOSE e \in S : \A f \in S : f[1] <= e[1]
       IN Glue(OrderedConcat(S \ { top }), top[2])

\* C3: in every reachable state the displayed transcript equals the
\* concatenation, by ascending sliceIndex, of the non-empty texts in the slice
\* text store, with one blank between two fragments exactly when the left one
\* does not end with a blank and the right one does not start with one.
C3_TranscriptIsOrderedConcat ==
  processedText = OrderedConcat(Fragments(sliceTexts))

\* the store with its entries in ascending index order and the empty ones left out
Canonical(m) ==
  SelectSeq(SortSeq(m, LAMBDA a, b : a[1] < b[1]), LAMBDA e : e[2] # << >>)

\* C4: reassembleText depends only on the set of (sliceIndex, non-empty text)
\* pairs: whatever the insertion order, and with or without entries whose text
\* is empty, the result is the one for the store holding just the non-empty
\* entries in ascending order.
C4_ReassembleOrderFree ==
  processedText = reassembleText(Canonical(sliceTexts))

\* C4 witness: slices 2, 1, 0 stored in that order, slice 1 silent, give
\* "hello there friend"
C4_Witness ==
  /\ KeysInOrder(sliceTexts) = << 2, 1, 0 >>
  /\ MapGet(sliceTexts, 0) = Hello
  /\ MapGet(sliceTexts, 1) = EmptyText
  /\ MapGet(sliceTexts, 2) = ThereFriend
  /\ processedText = << "hello", SP, "there", SP, "friend" >>

\* the finalizer of session s is waiting, every slice the session produced has
\* a terminal status, no further slice can come, and the trimmed transcript is
\* not empty
C5Ready(s) ==
  /\ pollers[s].pc = "polling"
  /\ recSession = s
  /\ events = << >>
  /\ restartTimers = << >>
  /\ releaseTimers = 0
  /\ audioSlices > 0
  /\ AllProcessed(statuses, audioSlices)
  /\ Trim(processedText) # << >>

\* C5: after stop, once every produced slice has a terminal status within the
\* poll window and the trimmed transcript is not empty, saveTranscription is
\* invoked exactly once for that stop, with the trimmed transcript and the
\* duration captured at stop: from such a state a step either leaves the
\* finalizer waiting on the same transcript or is the one save.
C5_SavedOnceWhenSettled ==
  [][ \A s \in DOMAIN pollers :
        C5Ready(s) =>
          \/ C5Ready(s)' /\ processedText' = processedText
          \/ pollers'[s] = Decided("saved", 1, Trim(processedText),
                                   pollers[s].duration) ]_vars

C7_TimeoutDecision ==
  [][ \A s \in DOMAIN pollers :
        ( /\ pollers[s].pc = "polling"
          /\ pollers'[s] # pollers[s]
          /\ pollers[s].checkCount + 1 >= MAX_CHECKS
          /\ audioSlices > 0
          /\ ~AllProcessed(statuses, audioSlices) )
        => pollers'[s] =
             IF Trim(processedText) # << >>
             THEN Decided("timeoutSaved", 1, Trim(processedText),
                          pollers[s].duration)
             ELSE Decided("timeoutError", 0, << >>, 0) ]_vars

\* C7 witness: a stop gave up on a slice whose request is still in flight and
\* saved the text of the others
C7_Witness ==
  \E s \in DOMAIN pollers :
    /\ pollers[s].outcome = "timeoutSaved"
    /\ pollers[s].saves = 1
    /\ pollers[s].savedText # << >>
    /\ \E i \in DOMAIN statuses : statuses[i] = "processing"

\* C8: checkAndSave runs at most MAX_CHECKS times per stop; a finalizer that
\* is still scheduled has run fewer than MAX_CHECKS checks, each check either
\* reschedules with the count one higher or reaches one decision, and after
\* its decision nothing further is scheduled.
C8_PollingTerminates ==
  [][ \A s \in (DOMAIN pollers) \cap (DOMAIN pollers') :
        /\ pollers[s].pc = "polling" => pollers[s].checkCount < MAX_CHECKS
        /\ pollers'[s].pc = "polling" =>
             /\ pollers'[s].checkCount < MAX_CHECKS
             /\ pollers'[s].outcome = "none"
        /\ pollers'[s].pc = "done" =>
             pollers'[s].outcome \in { "saved", "silent", "noAudio",
                                       "timeoutSaved", "timeoutError" }
        /\ pollers[s].pc = "done" => pollers'[s] = pollers[s] ]_vars

\* C8 witness: a finalizer about to run its last check
C8_Witness ==
  \E s \in DOMAIN pollers :
    /\ pollers[s].pc = "polling"
    /\ pollers[s].checkCount = MAX_CHECKS - 1

\* C9: when a reset aborts an in-flight request, the catch block of that
\* worker leaves the slice out of the active set and changes no status (none
\* becomes error), and the slice is not left with status processing.
C9_AbortLeavesNoTrace ==
  [][ \A w \in DOMAIN workers :
        ( workers[w].aborted /\ w \notin DOMAIN workers' )
        => LET i == workers[w].sliceIndex IN
           /\ i \notin DOMAIN activeRequests'
           /\ statuses' = statuses
           /\ i \in DOMAIN statuses' => statuses'[i] # "processing" ]_vars

\* C9 witness: reset has aborted a request that was in flight
C9_Witness ==
  \E w \in DOMAIN workers :
    /\ workers[w].aborted
    /\ workers[w].pc = "fetch"
    /\ workers[w].stale

\* C10: after a reset, a worker dispatched before it writes neither the
\* statuses, nor the slice text store, nor the transcript, nor the active set,
\* whatever phase (voice-activity check, request, backoff) it was in.
C10_StaleWorkerWritesNothing ==
  [][ \A w \in DOMAIN workers :
        ( /\ workers[w].stale
          /\ startPc' = startPc
          /\ w \notin DOMAIN workers' \/ workers'[w] # workers[w] )
        => UNCHANGED << statuses, sliceTexts, processedText,
                        activeRequests >> ]_vars

\* C11: a slice worker sends at most 2 requests: a retryable failure of the
\* first is followed by a backoff of 1 * 1000 ms and then the second attempt;
\* any failure of the second ends the worker with status error written (to the
\* record of its index, where one exists) and no third attempt.
C11_AtMostTwoAttempts ==
  [][ \A w \in DOMAIN workers :
        /\ workers[w].attempt \in { 1, 2 }
        /\ workers[w].pc = "backoff" =>
             workers[w].attempt = 1 /\ workers[w].delay = 1 * 1000
        /\ BackoffDone(w) =>
             workers'[w].attempt = 2 /\ workers'[w].pc = "vad"
        /\ \A m \in ErrorMessages :
             FetchFail(w, m) =>
               IF workers[w].attempt = 1 /\ isRetryable(m)
               THEN /\ workers'[w].pc = "backoff"
                    /\ workers'[w].attempt = 1
                    /\ workers'[w].delay = 1000
               ELSE /\ w \notin DOMAIN workers'
                    /\ workers[w].sliceIndex \in DOMAIN statuses =>
                         statuses'[workers[w].sliceIndex] = "error" ]_vars

\* C11 witness: a slice ended in error with a retryable message, that is on
\* its second attempt
C11_Witness ==
  \E i \in DOMAIN statuses :
    /\ statuses[i] = "error"
    /\ i \in DOMAIN statusErrors
    /\ statusErrors[i] = RetryableMessage

\* C12: a failure whose message is not retryable, on whichever attempt, ends
\* the worker at once: no backoff and no further request, status error and
\* the message written to the record of its index, and the index removed from
\* the active-request set.
C12_NonRetryableEndsAtOnce ==
  [][ \A w \in DOMAIN workers :
        FetchFail(w, FatalMessage) =>
          LET i == workers[w].sliceIndex IN
          /\ w \notin DOMAIN workers'
          /\ i \notin DOMAIN activeRequests'
          /\ i \in DOMAIN statuses =>
               /\ statuses'[i] = "error"
               /\ i \in DOMAIN statusErrors'
               /\ statusErrors'[i] = FatalMessage ]_vars

\* C12 witness: a slice in status error that carries the non-retryable
\* message, its index not in the active-request set
C12_Witness ==
  \E i \in DOMAIN statuses :
    /\ statuses[i] = "error"
    /\ i \in DOMAIN statusErrors
    /\ statusErrors[i] = FatalMessage
    /\ i \notin DOMAIN activeRequests

\* C13: the voice-activity gate runs before any request for the slice (a
\* worker enters its request only from a positive gate result), and a slice
\* the gate rejects goes directly from pending to skipped with the empty
\* string stored for it, its worker ending without a request.
C13_GateBeforeRequest ==
  [][ \A w \in DOMAIN workers :
        /\ ( /\ w \in DOMAIN workers'
             /\ workers'[w].pc = "fetch"
             /\ workers[w].pc # "fetch" ) => VadDone(w, TRUE)
        /\ VadDone(w, FALSE) =>
             LET i == workers[w].sliceIndex IN
             /\ w \notin DOMAIN workers'
             /\ MapHas(sliceTexts', i)
             /\ MapGet(sliceTexts', i) = EmptyText
             /\ i \in DOMAIN statuses =>
                  statuses[i] = "pending" /\ statuses'[i] = "skipped" ]_vars

\* C14: in every reachable state, while a dispatched slice worker has not
\* settled (whether in its voice-activity check, its request or a backoff
\* wait), isTranscribing is true.
C14_IndicatorWhileOutstanding ==
  (DOMAIN workers # { }) => isTranscribing

\* C15: a step that puts a slice's record into status error leaves the
\* recording state (isRecording, isPaused, the timers, the slice counter, the
\* recorder and its stream), the status and error of every other slice, the
\* stored texts and the transcript unchanged; and a slice the recorder emits
\* while an error record exists is dispatched like any other (it gets a record
\* and a worker in its voice-activity check).
BecomesError(i) ==
  /\ i \in DOMAIN statuses'
  /\ statuses'[i] = "error"
  /\ i \in DOMAIN statuses => statuses[i] # "error"

C15_ErrorTouchesOwnRecordOnly ==
  [][ /\ \A i \in DOMAIN statuses' :
           BecomesError(i) =>
             /\ UNCHANGED << isRecording, isPaused, sliceTimer, restartTimers,
                             releaseTimers, sliceCountRef, mediaRecorder,
                             streamRef, pendingSliceRef, chunksRef, events,
                             audioSlices, emitted >>
             /\ DOMAIN statuses' = DOMAIN statuses
             /\ \A j \in (DOMAIN statuses) \ { i } :
                  /\ statuses'[j] = statuses[j]
                  /\ j \in DOMAIN statusErrors' <=> j \in DOMAIN statusErrors
                  /\ j \in DOMAIN statusErrors =>
                       statusErrors'[j] = statusErrors[j]
             /\ UNCHANGED << sliceTexts, processedText >>
      /\ ( /\ \E i \in DOMAIN statuses : statuses[i] = "error"
           /\ Len(emitted') > Len(emitted) ) =>
           /\ sliceCountRef \in DOMAIN statuses'
           /\ WorkerId(recSession, sliceCountRef) \in DOMAIN workers'
           /\ workers'[WorkerId(recSession, sliceCountRef)].pc = "vad"
           /\ sliceCountRef' = sliceCountRef + 1 ]_vars

\* an error record exists and the recorder, stopped at a later boundary, is
\* about to emit the next slice of the running session
C15_Witness ==
  /\ isRecording
  /\ \E i \in DOMAIN statuses : statuses[i] = "error"
  /\ events # << >>
  /\ Head(events)
  /\ pendingSliceRef

C17_PausedMeansNoCapture ==
  isPaused =>
    /\ mediaRecorder # "recording"
    /\ orphans = 0
    /\ ~sliceTimer.on

\* C18: in every state in which the session is recording and not paused, a
\* MediaRecorder is recording.
C18_CaptureAlwaysActive ==
  (isRecording /\ ~isPaused) => mediaRecorder = "recording"

\* C19: when the recorder's data arrives for a slice that is due, the slice
\* is emitted and dispatched whatever the earlier workers are doing: exactly
\* one index is emitted in the step, it is the slice counter's value and larger
\* than every index emitted before in the session, a new worker starts for it,
\* and every worker already in flight stays as it was.  No step emits more than
\* one slice.
C19_EmissionIgnoresWorkers ==
  [][ /\ Len(emitted') <= Len(emitted) + 1
      /\ ( /\ events # << >>
           /\ Head(events)
           /\ pendingSliceRef
           /\ events' = Tail(events) ) =>
           /\ emitted' = Append(emitted, sliceCountRef)
           /\ \A k \in 1 .. Len(emitted) : emitted[k] < sliceCountRef
           /\ sliceCountRef' = sliceCountRef + 1
           /\ \A w \in DOMAIN workers :
                w \in DOMAIN workers' /\ workers'[w] = workers[w]
           /\ Cardinality(DOMAIN workers') = Cardinality(DOMAIN workers) + 1
           /\ \E w \in (DOMAIN workers') \ (DOMAIN workers) :
                /\ workers'[w].sliceIndex = sliceCountRef
                /\ workers'[w].pc = "vad" ]_vars

\* two workers of the running session wait for their responses while the
\* recorder is recording the next slice
C19_Witness ==
  /\ isRecording
  /\ ~isPaused
  /\ mediaRecorder = "recording"
  /\ sliceTimer.on
  /\ Cardinality({ w \in DOMAIN workers :
                     ~workers[w].stale /\ workers[w].pc = "fetch" }) >= 2

\* C20: the tracks of an acquired stream are never stopped twice, and they
\* have been stopped once as soon as nothing can stop them any more: when
\* streamRef no longer holds the stream, and when the component is unmounted
\* with no release timeout pending.
C20_TracksStoppedOnce ==
  \A s \in DOMAIN trackStops :
    /\ trackStops[s] <= 1
    /\ s # streamRef => trackStops[s] = 1
    /\ (~mounted /\ releaseTimers = 0) => trackStops[s] = 1

\* C21: when getUserMedia rejects, the start leaves the recorder as it was:
\* isRecording stays false, no boundary timer is armed, no recorder or stream
\* exists that was not there before, no slice is emitted, the error message of
\* the rejection is set, and no acquisition is pending afterwards (a new one
\* begins only with the next handleStart).  While no acquisition has ever
\* succeeded there is no recording, no timer, no recorder and no slice.
C21_FailedStartStaysIdle ==
  [][ /\ \A err \in StartErrors :
           StartFailed(err) =>
             /\ ~isRecording /\ ~isRecording'
             /\ ~sliceTimer'.on
             /\ UNCHANGED << mediaRecorder, streamRef, events, restartTimers,
                             sliceCountRef, audioSlices, emitted, workers,
                             statuses, recSession, budget >>
             /\ recordingError' # NoError
             /\ recordingError' = StartErrorMessage(err)
             /\ startPc' = "idle"
      /\ (startPc # "acquiring" /\ startPc' = "acquiring") => HandleStart
      /\ recSession' = 0 =>
           /\ ~isRecording'
           /\ ~sliceTimer'.on
           /\ mediaRecorder' = "null"
           /\ emitted' = << >>
           /\ audioSlices' = 0
           /\ workers' = Empty ]_vars

\* the first start failed for want of the device and nothing was recorded
C21_Witness ==
  /\ recSession = 0
  /\ startPc = "idle"
  /\ recordingError = StartErrorMessage("NotFoundError")
  /\ ~isRecording

\* C22: while the boundary timer of a session is armed, its delay is the
\* slice interval that was read when the session was started.
C22_IntervalFixedForSession ==
  sliceTimer.on => sliceTimerMs = sessionIntervalMs

\* C23: with a previous context present, whenever the new text equals the
\* context once both are lower-cased and stripped of surrounding whitespace,
\* removeDuplicatesHeuristic returns the empty string.
C23_ExactDuplicateGivesEmpty ==
  ( /\ cleanedText # NotRun
    /\ previousContext # << >>
    /\ Trim(toLowerCase(routeText)) = Trim(toLowerCase(previousContext)) ) =>
    cleanedText = << >>

\* text " A" with context "a " was reduced to ""
C23_Witness ==
  /\ routeText = << SP, "A" >>
  /\ previousContext = << "a", SP >>
  /\ cleanedText = << >>

\* C24: with a previous context present, whenever the lower-cased new text
\* begins with the whole lower-cased context and is not equal to it, the
\* result is the new text without its first previousContext.length characters,
\* trimmed, whether or not a later case would match as well.
C24_PrefixStripped ==
  ( /\ cleanedText # NotRun
    /\ previousContext # << >>
    /\ startsWith(toLowerCase(routeText), toLowerCase(previousContext))
    /\ toLowerCase(routeText) # toLowerCase(previousContext) ) =>
    cleanedText = Trim(SubSeq(routeText, Len(previousContext) + 1,
                              Len(routeText)))

\* text "aAb" with context "aa" gave "b"; the suffix case, which also matches,
\* would have given "Ab"
C24_Witness ==
  /\ routeText = << "a", "A", "b" >>
  /\ previousContext = << "a", "a" >>
  /\ cleanedText = << "b" >>

\* C25: when the slice decodes to a channel of at least one sample, hasSpeech
\* returns true exactly when the root mean square of the samples is at least
\* 0.015 or the share of samples with absolute value at least 0.015 is at
\* least 0.005; all zeros give false, and 199 zeros with one sample at 0.5
\* give true.
RECURSIVE Flatten(_)
Flatten(runs) ==
  IF runs = << >> THEN << >>
  ELSE [ i \in 1 .. Head(runs)[2] |-> Head(runs)[1] ] \o Flatten(Tail(runs))

\* the sum of the squares of the samples whose value is in vals
RECURSIVE SumSqOf(_, _)
SumSqOf(vals, xs) ==
  IF vals = {} THEN 0
  ELSE LET v == CHOOSE w \in vals : TRUE IN
       v * v * Cardinality({ i \in 1 .. Len(xs) : xs[i] = v })
       + SumSqOf(vals \ { v }, xs)

SumSq(xs) == SumSqOf({ xs[i] : i \in 1 .. Len(xs) }, xs)

Loud(xs) == Cardinality({ i \in 1 .. Len(xs) : xs[i] >= 15 \/ xs[i] <= -15 })

C25_SpeechIffLoudEnough ==
  ( /\ vad.done
    /\ blob.audioContext
    /\ blob.decodes
    /\ ChannelLength(blob.channelData) > 0 ) =>
    LET xs == Flatten(blob.channelData) IN
    /\ vad.value <=> ( \/ SumSq(xs) >= 15 * 15 * Len(xs)
                       \/ Loud(xs) * 1000 >= 5 * Len(xs) )
    /\ (\A i \in 1 .. Len(xs) : xs[i] = 0) => ~vad.value
    /\ (Len(xs) = 200 /\ Loud(xs) = 1 /\ SumSq(xs) = 500 * 500) => vad.value

\* 199 zeros followed by one sample at -0.5 were judged to be speech
C25_Witness ==
  /\ vad.done
  /\ vad.value
  /\ blob.audioContext
  /\ blob.decodes
  /\ blob.channelData = << << 0, 199 >>, << -500, 1 >> >>

\* C26: when decoding the slice fails, hasSpeech returns true, except for a
\* slice of size zero, for which it returns false.
C26_FailOpenButEmpty ==
  ( /\ vad.done
    /\ blob.audioContext
    /\ ~blob.decodes ) =>
    ( vad.value <=> blob.size # 0 )


\* C27: at a boundary whose dataavailable event carries no data, an (empty)
\* slice is still produced and its sliceIndex consumed: every data event that
\* arrives while a slice is pending advances the counter by one.
C27_EmptyBoundaryStillCounted ==
  [][ (DataAvailable /\ pendingSliceRef) =>
        /\ sliceCountRef' = sliceCountRef + 1
        /\ audioSlices' = audioSlices + 1
        /\ emitted' = Append(emitted, sliceCountRef) ]_vars


\* C28: a failed response with status 503 is retryable whatever its body: on
\* an attempt before the last one the worker goes to its backoff and writes
\* no error.
C28_Status503Retried ==
  [][ \A w \in DOMAIN workers, r \in FailedResponses :
        ( /\ r.status = 503
          /\ workers[w].attempt < MAX_RETRIES
          /\ ResponseNotOk(w, r) ) =>
          /\ w \in DOMAIN workers'
          /\ workers'[w].pc = "backoff"
          /\ UNCHANGED << statuses, statusErrors >> ]_vars


\* none of the first three cases of removeDuplicatesHeuristic matches
NoEarlierCase ==
  LET prevLower == Trim(toLowerCase(previousContext))
      textLower == Trim(toLowerCase(routeText))
      prevSuffix == sliceLast(prevLower, Min(50, Len(previousContext) \div 2))
  IN  /\ textLower # prevLower
      /\ ~startsWith(textLower, prevLower)
      /\ ~startsWith(textLower, prevSuffix)

\* the word-level rule, for contexts of at least minWords words: the last k
\* words of the context (k at most 10) are compared in place with the first
\* words of the text; with at least 70% of the k matching, as many leading
\* words as match are dropped, otherwise the text is unchanged
WordRule(minWords) ==
  LET pw == split(previousContext)
      tw == split(routeText)
      k == Min(10, Len(pw))
      matches == Cardinality({ j \in 1 .. k :
                   /\ j <= Len(tw)
                   /\ toLowerCase(tw[j]) = toLowerCase(pw[Len(pw) - k + j]) })
  IN  IF Len(pw) >= minWords /\ 10 * matches >= 7 * k
      THEN cleanedText = join(SubSeq(tw, matches + 1, Len(tw)))
      ELSE cleanedText = routeText

C30_SimilarityNeverErases ==
  (reply.sent /\ reply.text = << >>) =>
    (cleanedText = << >> \/ validatedText = << >>)


\* the words of a text that are not empty
RealWords(txt) ==
  LET ws == split(txt) IN Cardinality({ i \in 1 .. Len(ws) : ws[i] # << >> })

\* C31: in the workflow of route.ts the validation model is asked only when
\* there is a previous context and the heuristically cleaned text has more
\* than 3 words; when the call fails the success response carries the cleaned
\* text unchanged; when it answers with the duplicate sentinel the response
\* text is empty.
C31_ValidationGuardedAndFailSafe ==
  [][ \A outcome \in ValidationOutcomes :
        (engine = "gemini" /\ Finish(outcome)) =>
          /\ reply'.sent
          /\ validatedText' # NotRun =>
               /\ previousContext # << >>
               /\ RealWords(cleanedText) > 3
               /\ outcome = "failed" => reply' = Reply(cleanedText, FALSE)
               /\ outcome = "duplicate" => reply'.text = << >>
          /\ (previousContext # << >> /\ RealWords(cleanedText) > 3) =>
               validatedText' # NotRun ]_vars

\* C31 witness: the validation was called on a cleaned text of 4 words and the
\* response carries that text
C31_Witness ==
  /\ engine = "gemini"
  /\ reply.sent
  /\ RealWords(cleanedText) = 4
  /\ validatedText = cleanedText
  /\ reply = Reply(cleanedText, FALSE)


\* C32: a transcription request that began after a dictionary write had
\* completed (entry saved, cache invalidated) uses that version of the
\* dictionary or a later one, whatever requests ran alongside the write.
C32_WritesReachLaterRequests ==
  \A r \in DOMAIN requests :
    requests[r].pc = "done" => requests[r].words >= requests[r].after


C34_EverySliceSettles ==
  /\ \A i \in 0 .. MaxSlicesL :
       (i \in DOMAIN statuses) ~>
         (i \in DOMAIN statuses /\ statuses[i] \in Terminal)
  /\ [](\A w \in DOMAIN workers : workers[w].attempt <= MAX_RETRIES)

\* C34 witness: a slice ended in error after its retry failed as well, while
\* another slice ended completed
C34_Witness ==
  \E i, j \in DOMAIN statuses :
    /\ statuses[i] = "error"
    /\ i \in DOMAIN statusErrors
    /\ statusErrors[i] = RetryableMessage
    /\ statuses[j] = "completed"


\* C35: when the finalizer of a stop saves before its timeout, the stopped
\* session is still the one whose records exist, no slice of it is still to
\* be delivered, and every index it handed out has a status record that is
\* terminal.
C35_SaveOnlyWhenSessionSettled ==
  [][ \A s \in (DOMAIN pollers) \cap (DOMAIN pollers') :
        ( /\ pollers'[s].saves > pollers[s].saves
          /\ pollers'[s].outcome = "saved" ) =>
          /\ recSession = s
          /\ ~isRecording
          /\ events = << >>
          /\ \A i \in 0 .. (sliceCountRef - 1) :
               i \in DOMAIN statuses /\ statuses[i] \in Terminal ]_vars


\* C36: the 200 ms release timeout of a stop never stops the tracks of the
\* stream of a session that was started after that stop and is recording.
C36_ReleaseSparesNewSession ==
  [][ (ReleaseFire /\ isRecording) => trackStops' = trackStops ]_vars

\* C37: once stopRecording has run, no MediaRecorder is created or started
\* for the stopped session: a restart timer armed by a boundary tick shortly
\* before the stop does not restart capture, and no chunk is buffered after
\* the stop without being emitted as a slice.
C37_NoRestartAfterStop ==
  [][ /\ (RestartFire /\ ~isRecording) => mediaRecorder' = mediaRecorder
      /\ (DataAvailable /\ ~isRecording) => chunksRef' <= chunksRef ]_vars

\* C38: handleStart dispatches the "recording" state event (and shows the
\* "Recording started" notification) only if startRecording put the recorder
\* into the recording state; when the device acquisition fails, no
\* "recording" event is dispatched.
C38_RecordingEventOnlyWhenRecording ==
  [][ (startPc = "acquiring" /\ startPc' = "idle") =>
        (recordingState' = "recording" =>
           (isRecording' /\ mediaRecorder' = "recording")) ]_vars

\* the entries of a Map whose key is lower than k
LowerTexts(m, k) == SelectSeq(m, LAMBDA e : e[1] < k)

\* C39: the context sent with a request for slice k (first attempt or retry)
\* is made only of text resolved from slices with an index lower than k,
\* whatever the order in which the other slices complete.
C39_ContextFromEarlierSlices ==
  [][ \A w \in DOMAIN workers :
        (~workers[w].stale /\ VadDone(w, TRUE)) =>
          processedText =
            reassembleText(LowerTexts(sliceTexts, workers[w].sliceIndex)) ]_vars

\* a text with its surrounding blanks dropped and every run of blanks made one
Normalise(txt) == join(SelectSeq(split(txt), LAMBDA w : w # << >>))

\* the leading part removed lies within a match with the context, without
\* regard to case: it is blank, it begins the whole context or a suffix of the
\* context, or it is a run of words each equal to the word at the same
\* position of the last words of the context
MatchesContext(removed, context) ==
  LET r == Trim(toLowerCase(removed))
      c == Trim(toLowerCase(context))
      rw == split(r)
      window == lastNWords(split(context))
  IN  \/ r = << >>
      \/ \E n \in 1 .. Len(c) : startsWith(sliceLast(c, n), r)
      \/ \A k \in 1 .. Len(rw) :
           k <= Len(window) /\ rw[k] = toLowerCase(window[k])

\* C40: removeDuplicatesHeuristic only removes a leading part of the new text
\* that matches the previous context: the result is a suffix of the new text
\* up to whitespace normalisation, what was removed before it matches the
\* context (the whole context, a suffix of it, or word by word in place), and
\* with no context or an empty text the input is returned unchanged.
C40_OnlyMatchingPrefixRemoved ==
  cleanedText # NotRun =>
    /\ (previousContext = << >> \/ routeText = << >>) => cleanedText = routeText
    /\ \E n \in 0 .. Len(routeText) :
         /\ Normalise(cleanedText) = Normalise(slice(routeText, n))
         /\ MatchesContext(SubSeq(routeText, 1, n), previousContext)

====
